---- MODULE Spec2Model ----
(***************************************************************************)
(* Client-side session lifecycle of the jessica front end:                 *)
(*   - AuthContext (src/unnamed/part_004): axios interceptors, the         *)
(*     currentUser query, the login/register/logout mutations;             *)
(*   - OAuthCallback (src/unnamed/part_001);                               *)
(*   - the route guard of App.js (App, ProtectedRoute, PublicRoute);       *)
(*   - the callers: LoginPage/RegisterPage onSubmit, Sidebar.handleLogout, *)
(*     CreditsPage.handlePaymentSuccess, page data fetches.                *)
(* The browser runs one handler at a time (event loop), so every handler   *)
(* is one atomic action; the suspension points are the HTTP requests,      *)
(* kept in reqs while in flight.  react-query (v3) is modelled by what the *)
(* code relies on: enabled, retry: false, the status of the query, fetch   *)
(* de-duplication, setQueryData, invalidateQueries and clear.              *)
(***************************************************************************)
EXTENDS Naturals, FiniteSets, Sequences, TLC

VARIABLES
  storage,        \* localStorage['accessToken']: a token or None
  user,           \* AuthProvider useState(null)
  isInitialized,  \* AuthProvider useState(false)
  query,          \* the ['currentUser'] query and its observer's options
  reqs,           \* HTTP requests in flight
  cache,          \* whether the query cache holds server-derived data
  location,       \* the router's current path
  params,         \* the search parameters of the page's URL
  screen,         \* what App rendered last
  mounted,        \* whether the page's React tree is mounted
  reloadPending,  \* window.location.href was assigned: a full page load is due
  navIssued,      \* number of window.location.href assignments of this page load
  last,           \* what the last step reported: promise result, notification
  handling,       \* the response interceptor's error handler, statement by statement
  history         \* the router's history entries, the current one last

vars == <<storage, user, isInitialized, query, reqs, cache, location,
          params, screen, mounted, reloadPending, navIssued, last, handling,
          history>>

----------------------------------------------------------------------------
(* Bounds *)

\* at most this many HTTP requests in flight
MaxInFlight == 2

\* navIssued saturates here
MaxNav == 2

\* the response interceptor is followed through this many failures of one
\* originating request
MaxFailures == 2

\* the router's history is followed up to this many entries
MaxHistory == 3

----------------------------------------------------------------------------
(* Values *)

None == "none"

Tokens == {"t1", "t2"}

\* the account the backend issued a token for
UserOf(t) == IF t = "t1" THEN "u1" ELSE "u2"

LoginPath == "/auth/login"

RegisterPath == "/auth/register"

CallbackPath == "/auth/callback"

DashboardPath == "/dashboard"

CreditsPath == "/credits"

PublicPaths == {LoginPath, RegisterPath, CallbackPath}

ProtectedPaths == {DashboardPath, CreditsPath}

Paths == PublicPaths \cup ProtectedPaths

\* "ok" is a 2xx response, "unauthorized" a 401, "error" any other error
\* status, "network" a failure without a response
Outcomes == {"ok", "unauthorized", "error", "network"}

\* the endpoints that require the bearer token
Authorized == {"me", "data", "logout"}

NoParams == [token |-> None, error |-> FALSE]

ParamSets == [token : Tokens \cup {None}, error : BOOLEAN]

\* no run of the response interceptor is followed statement by statement
Idle == [pc |-> "idle"]

NoEvent == [op |-> None, result |-> None, error |-> None, toast |-> None]

IdleQuery == [status |-> "idle", hasData |-> FALSE, fetching |-> FALSE, enabled |-> FALSE]

\* the program state as one record, so that handlers are functions on it
St == [token |-> storage, user |-> user, init |-> isInitialized, q |-> query,
       reqs |-> reqs, cache |-> cache, loc |-> location,
       params |-> params, screen |-> screen, mounted |-> mounted,
       reload |-> reloadPending, navs |-> navIssued, last |-> last]

\* the state a handler starts from: nothing reported yet
Begin == [St EXCEPT !.last = NoEvent]

\* the program state after a handler
Assign(st) ==
  /\ storage' = st.token
  /\ user' = st.user
  /\ isInitialized' = st.init
  /\ query' = st.q
  /\ reqs' = st.reqs
  /\ cache' = st.cache
  /\ location' = st.loc
  /\ params' = st.params
  /\ screen' = st.screen
  /\ mounted' = st.mounted
  /\ reloadPending' = st.reload
  /\ navIssued' = st.navs
  /\ last' = st.last

\* a step of the application; the views that follow the interceptor's
\* statements and the router's history have specifications of their own
Commit(st) ==
  /\ Assign(st)
  /\ handling' = handling
  /\ history' = history

----------------------------------------------------------------------------
(* Route guard: App.js *)

\* mutant: isLoading without the query's loading flag
IsLoadingInitOnly(st) == ~st.init

\* value.isLoading of the auth context
IsLoading(st) == st.q.status = "loading" \/ ~st.init

Show(s) == [kind |-> "render", what |-> s]

Redirect(to) == [kind |-> "redirect", what |-> to]

\* mutant: the protected zone without the user check
ProtectedRouteNoUserCheck(st) ==
  IF ~st.init \/ st.q.status = "loading" THEN Show("loading") ELSE Show("protected")

ProtectedRoute(st) ==
  IF IsLoading(st) THEN Show("loading")
  ELSE IF st.user = None THEN Redirect(LoginPath)
  ELSE Show("protected")

PublicRoute(st) ==
  IF IsLoading(st) THEN Show("loading")
  ELSE IF st.user # None THEN Redirect(DashboardPath)
  ELSE Show(IF st.loc = CallbackPath THEN "callback" ELSE "auth")

App(st) ==
  IF IsLoading(st) THEN Show("loading")
  ELSE IF st.loc \in PublicPaths THEN PublicRoute(st)
  ELSE ProtectedRoute(st)

\* <Navigate to=... replace />: the guard's redirect replaces the location
\* and the tree renders again at the new location
Follow(st) ==
  LET d == App(st)
  IN IF d.kind = "redirect" THEN [st EXCEPT !.loc = d.what] ELSE st

\* One render pass of the tree, redirects followed to the screen shown (a
\* redirect leads to a path of the other zone, which renders: two passes).
\* The search parameters belong to the URL and go when the path changes.
RenderApp(st) ==
  IF ~st.mounted THEN st
  ELSE LET s1 == Follow(st)
           s2 == Follow(s1)
       IN [s2 EXCEPT !.screen = App(s2).what,
                     !.params = IF s2.loc = st.loc THEN @ ELSE NoParams]

----------------------------------------------------------------------------
(* Authorized request pipeline: the axios interceptors of AuthContext *)

Min(a, b) == IF a < b THEN a ELSE b

\* The config of a request as its caller hands it to axios: no Authorization
\* header (bearer), no _retry marker (retry).  live says that the react-query
\* promise waiting for the response has not been cancelled; epoch records
\* how many teardowns the page load had seen when the request was sent.
Config(st, ep) ==
  [ep |-> ep, bearer |-> None, retry |-> FALSE, live |-> TRUE, epoch |-> st.navs]

\* mutant: the interceptor returns the config as it came
RequestInterceptorNoHeader(config, token) == config

\* request interceptor: with a token in storage the Authorization header
\* becomes 'Bearer <token>'; the config is returned otherwise untouched
RequestInterceptor(config, token) ==
  IF token # None THEN [config EXCEPT !.bearer = token] ELSE config

\* axios sends a request: the interceptor runs with the token that is in
\* storage now, and the request is in flight
Send(st, ep) ==
  [st EXCEPT !.reqs = @ \cup {RequestInterceptor(Config(st, ep), st.token)}]

\* mutant: the 401 branch navigates but leaves the token in storage
ResponseInterceptorKeepsToken(st, req, outcome) ==
  IF outcome = "unauthorized" /\ ~req.retry
  THEN [st EXCEPT !.reload = TRUE, !.navs = Min(@ + 1, MaxNav)]
  ELSE st

\* mutant: the 401 branch runs only while a token is stored
ResponseInterceptorGuarded(st, req, outcome) ==
  IF outcome = "unauthorized" /\ ~req.retry /\ st.token # None
  THEN [st EXCEPT !.token = None,
                  !.reload = TRUE,
                  !.navs = Min(@ + 1, MaxNav)]
  ELSE st

\* mutant: the teardown runs for every error status
ResponseInterceptorAnyStatus(st, req, outcome) ==
  IF outcome \in {"unauthorized", "error"} /\ ~req.retry
  THEN [st EXCEPT !.token = None,
                  !.reload = TRUE,
                  !.navs = Min(@ + 1, MaxNav)]
  ELSE st

\* response interceptor, error branch: the teardown on a first 401
ResponseInterceptor(st, req, outcome) ==
  IF outcome = "unauthorized" /\ ~req.retry
  THEN [st EXCEPT !.token = None,
                  !.reload = TRUE,
                  !.navs = Min(@ + 1, MaxNav)]
  ELSE st

----------------------------------------------------------------------------
(* Session store: AuthProvider *)

\* query.fetch() of ['currentUser']: one fetch per query at a time; a query
\* without data goes to status loading; the request is GET /api/auth/me
StartFetch(st) ==
  IF st.q.fetching THEN st
  ELSE Send([st EXCEPT !.q.fetching = TRUE,
                       !.q.status = IF st.q.hasData THEN @ ELSE "loading"], "me")

\* mutant: the query is enabled whatever the storage holds
UseQueryAlwaysEnabled(st) ==
  LET s1 == [st EXCEPT !.q.enabled = TRUE]
  IN IF ~st.q.enabled THEN StartFetch(s1) ELSE s1

\* useQuery(['currentUser'], ..., {enabled: !!localStorage.getItem(..)}) at a
\* render of AuthProvider: enabled is read from storage at render time, and
\* an observer that becomes enabled fetches (the data is stale: staleTime 0)
UseQuery(st) ==
  LET en == st.token # None
      s1 == [st EXCEPT !.q.enabled = en]
  IN IF en /\ ~st.q.enabled THEN StartFetch(s1) ELSE s1

\* mutant: onSuccess marks the session initialized and drops the record
OnSuccessDropsData(st, data) == [st EXCEPT !.init = TRUE]

\* currentUser onSuccess
OnSuccess(st, data) == [st EXCEPT !.user = data, !.init = TRUE]

\* mutant: onError leaves the token in storage
OnErrorKeepsToken(st) == [st EXCEPT !.user = None, !.init = TRUE]

\* mutant: onError leaves the session unresolved
OnErrorUninitializes(st) == [st EXCEPT !.token = None, !.user = None, !.init = FALSE]

\* currentUser onError
OnError(st) == [st EXCEPT !.token = None, !.user = None, !.init = TRUE]

\* mutant: no mount effect
InitEffectMissing(st) == st

\* the mount effect "Initialize auth state"
InitEffect(st) == IF st.token = None THEN [st EXCEPT !.init = TRUE] ELSE st

\* queryClient.setQueryData(['currentUser'], data.user)
SetQueryData(st) ==
  [st EXCEPT !.q.status = "success", !.q.hasData = TRUE, !.q.fetching = FALSE,
             !.cache = TRUE]

\* mutant: onSuccess stores the token and the query data but not the user
LoginOnSuccessNoUser(st, tok) == SetQueryData([st EXCEPT !.token = tok])

\* loginMutation / registerMutation onSuccess
LoginOnSuccess(st, tok) ==
  SetQueryData([st EXCEPT !.token = tok, !.user = UserOf(tok)])

\* loginMutation / registerMutation onError: a toast, nothing else
LoginOnError(st) == st

\* queryClient.clear(): every query and mutation is removed from the cache
\* and its pending promise cancelled; the HTTP requests stay in flight
QueryClientClear(st) ==
  [st EXCEPT !.q = [IdleQuery EXCEPT !.enabled = st.q.enabled],
             !.reqs = {[r EXCEPT !.live = FALSE] : r \in @},
             !.cache = FALSE]

\* mutant: onSettled forgets the token
LogoutKeepsToken(st) == QueryClientClear([st EXCEPT !.user = None])

\* logoutMutation onSettled
LogoutOnSettled(st) ==
  QueryClientClear([st EXCEPT !.token = None, !.user = None])

\* a render of AuthProvider followed by the render of the tree below it
Render(st) == IF st.mounted THEN RenderApp(UseQuery(st)) ELSE st

\* isLoginLoading / isRegisterLoading: the mutation's promise is pending
IsMutating(st, ep) == \E r \in st.reqs : r.ep = ep /\ r.live

Event(op, result, error, toast) ==
  [op |-> op, result |-> result, error |-> error, toast |-> toast]

----------------------------------------------------------------------------
(* Completion of a request, by endpoint *)

\* the axios promise as its awaiting code sees it: the response interceptor
\* rejects every error with the error it received
Settle(op, outcome, toast) ==
  IF outcome = "ok" THEN Event(op, "resolved", None, toast)
  ELSE Event(op, "rejected", outcome, toast)

\* GET /api/auth/me settled: the query's reducer, then onSuccess / onError
MeSettled(st, req, outcome) ==
  LET s == [st EXCEPT !.last = Settle("me", outcome, None)]
  IN IF ~req.live THEN s
     ELSE IF outcome = "ok"
     THEN OnSuccess([s EXCEPT !.q.status = "success", !.q.hasData = TRUE,
                              !.q.fetching = FALSE, !.cache = TRUE],
                    UserOf(req.bearer))
     ELSE OnError([s EXCEPT !.q.status = "error", !.q.fetching = FALSE])

\* a page's data query settled
DataSettled(st, req, outcome) ==
  LET s == [st EXCEPT !.last = Settle("data", outcome, None)]
  IN IF req.live /\ outcome = "ok" THEN [s EXCEPT !.cache = TRUE] ELSE s

\* POST /api/auth/login or /register settled, and the continuation of
\* LoginPage / RegisterPage onSubmit: navigate('/dashboard') after a success
LoginSettled(st, req, outcome, tok) ==
  IF ~req.live THEN [st EXCEPT !.last = Settle(req.ep, outcome, None)]
  ELSE IF outcome = "ok"
  THEN [LoginOnSuccess(st, tok) EXCEPT
          !.loc = DashboardPath,
          !.params = NoParams,
          !.last = Settle(req.ep, outcome, "success")]
  ELSE [LoginOnError(st) EXCEPT
          !.last = Settle(req.ep, outcome, "error")]

\* mutant: the error is not caught and the teardown is in onSuccess
LogoutSettledOnSuccess(st, req, outcome) ==
  IF ~req.live THEN st
  ELSE IF outcome = "ok"
  THEN [QueryClientClear([st EXCEPT !.token = None, !.user = None]) EXCEPT
          !.last = Event("logout", "resolved", None, "success")]
  ELSE [st EXCEPT !.last = Event("logout", "rejected", outcome, None)]

\* POST /api/auth/logout settled: authAPI.logout catches the error, so the
\* mutation always resolves and onSettled runs
LogoutSettled(st, req, outcome) ==
  IF ~req.live THEN st
  ELSE [LogoutOnSettled(st) EXCEPT
          !.last = Event("logout", "resolved", None, "success")]

\* POST /api/auth/forgot-password or /reset-password settled:
\* forgotPasswordMutation / resetPasswordMutation onSuccess and onError are
\* a toast each
PasswordSettled(st, req, outcome) ==
  IF ~req.live THEN [st EXCEPT !.last = Settle(req.ep, outcome, None)]
  ELSE [st EXCEPT !.last = Settle(req.ep, outcome,
                                  IF outcome = "ok" THEN "success" ELSE "error")]

Settled(st, req, outcome, tok) ==
  CASE req.ep = "me" -> MeSettled(st, req, outcome)
    [] req.ep = "data" -> DataSettled(st, req, outcome)
    [] req.ep \in {"login", "register"} -> LoginSettled(st, req, outcome, tok)
    [] req.ep = "logout" -> LogoutSettled(st, req, outcome)
    [] req.ep \in {"forgot", "reset"} -> PasswordSettled(st, req, outcome)

\* the whole handling of a response: the response interceptor first (only
\* errors reach its error branch), then the promise's continuation.  The
\* session's queries and mutations make AuthProvider render again; a page's
\* data query and a cancelled promise do not.
HandleResponse(st, req, outcome, tok) ==
  LET s0 == [st EXCEPT !.reqs = @ \ {req}]
      s1 == IF outcome = "ok" THEN s0 ELSE ResponseInterceptor(s0, req, outcome)
      s2 == Settled(s1, req, outcome, tok)
  IN IF req.live /\ req.ep # "data" THEN Render(s2) ELSE RenderApp(s2)

----------------------------------------------------------------------------
(* OAuth callback and page loads *)

\* mutant: the token branch stores nothing
OAuthCallbackStoresNothing(st) ==
  IF st.params.error
  THEN [st EXCEPT !.loc = LoginPath,
                  !.last = Event("callback", None, "provider", "error")]
  ELSE IF st.params.token # None
  THEN [st EXCEPT !.loc = DashboardPath,
                  !.last = Event("callback", None, None, "success")]
  ELSE [st EXCEPT !.loc = LoginPath,
                  !.last = Event("callback", None, "missing", "error")]

\* mutant: the token is looked at before the error
OAuthCallbackTokenFirst(st) ==
  IF st.params.token # None
  THEN [st EXCEPT !.token = st.params.token,
                  !.loc = DashboardPath,
                  !.last = Event("callback", None, None, "success")]
  ELSE IF st.params.error
  THEN [st EXCEPT !.loc = LoginPath,
                  !.last = Event("callback", None, "provider", "error")]
  ELSE [st EXCEPT !.loc = LoginPath,
                  !.last = Event("callback", None, "missing", "error")]

\* OAuthCallback.handleCallback
OAuthCallback(st) ==
  IF st.params.error
  THEN [st EXCEPT !.loc = LoginPath,
                  !.last = Event("callback", None, "provider", "error")]
  ELSE IF st.params.token # None
  THEN [st EXCEPT !.token = st.params.token,
                  !.loc = DashboardPath,
                  !.last = Event("callback", None, None, "success")]
  ELSE [st EXCEPT !.loc = LoginPath,
                  !.last = Event("callback", None, "missing", "error")]

\* the browser loads the application at a URL: the storage survives,
\* everything in memory (React state, caches, pending requests) is gone
BrowserLoad(st, path, p) ==
  [st EXCEPT !.user = None, !.init = FALSE, !.q = IdleQuery, !.reqs = {},
             !.cache = FALSE, !.loc = path, !.params = p,
             !.screen = None, !.mounted = FALSE, !.reload = FALSE, !.navs = 0,
             !.last = NoEvent]

\* first render of AuthProvider and App, and the mount effects
MountApp(st) ==
  RenderApp(InitEffect(UseQuery([st EXCEPT !.mounted = TRUE])))

----------------------------------------------------------------------------
(* Actions *)

Init ==
  /\ storage \in Tokens \cup {None}
  /\ user = None
  /\ isInitialized = FALSE
  /\ query = IdleQuery
  /\ reqs = {}
  /\ cache = FALSE
  /\ location \in Paths
  /\ params \in (IF location = CallbackPath THEN ParamSets ELSE {NoParams})
  /\ screen = None
  /\ mounted = FALSE
  /\ reloadPending = FALSE
  /\ navIssued = 0
  /\ last = NoEvent
  /\ handling = Idle
  /\ history = << >>

Within(st) == Cardinality(st.reqs) <= MaxInFlight

\* The page accepts input and its timers run: it is mounted and no page load
\* is due.  Once window.location is assigned the document is being replaced;
\* until the new page loads, only responses of requests in flight are handled.
Interactive == mounted /\ ~reloadPending

\* application start of a page load
Mount ==
  /\ ~mounted
  /\ Commit(MountApp(Begin))

\* the backend answers request req (or the transport fails).  A 2xx of an
\* authorized endpoint needs a bearer token; tok is the access_token of a
\* successful login / register
Respond(req, outcome, tok) ==
  /\ mounted
  /\ req \in reqs
  /\ outcome = "ok" /\ req.ep \in Authorized => req.bearer # None
  /\ (tok # None) <=> (outcome = "ok" /\ req.ep \in {"login", "register"})
  /\ Commit(HandleResponse(Begin, req, outcome, tok))

\* the backend answers some request in flight
RespondAny ==
  \E req \in reqs, outcome \in Outcomes, tok \in Tokens \cup {None} :
    Respond(req, outcome, tok)

\* LoginPage / RegisterPage onSubmit: login(data) / registerUser(data)
Submit(ep) ==
  /\ Interactive
  /\ screen = "auth"
  /\ location = (IF ep = "login" THEN LoginPath ELSE RegisterPath)
  /\ ~IsMutating(Begin, ep)
  /\ LET st == Render(Send(Begin, ep))
     IN Within(st) /\ Commit(st)

\* mutant: the local teardown runs at the call, before the request is sent
LogoutEager ==
  /\ Interactive
  /\ screen = "protected"
  /\ LET st == Render(Send(LogoutOnSettled(Begin), "logout"))
     IN Within(st) /\ Commit(st)

\* Sidebar.handleLogout: logout()
Logout ==
  /\ Interactive
  /\ screen = "protected"
  /\ LET st == Render(Send(Begin, "logout"))
     IN Within(st) /\ Commit(st)

\* a page under DashboardLayout fetches its data (useQuery, refetchInterval)
FetchData ==
  /\ Interactive
  /\ screen = "protected"
  /\ LET st == Send(Begin, "data")
     IN Within(st) /\ Commit(st)

\* mutant: the invalidation throws the cached user away before fetching
InvalidateRemovesData(st) ==
  IF st.q.enabled THEN StartFetch([st EXCEPT !.q.hasData = FALSE, !.q.fetching = FALSE])
  ELSE st

\* queryClient.invalidateQueries('currentUser'): the query is refetched
\* when its observer is enabled
InvalidateCurrentUser(st) == IF st.q.enabled THEN StartFetch(st) ELSE st

\* CreditsPage.handlePaymentSuccess
PaymentSuccess ==
  /\ Interactive
  /\ screen = "protected"
  /\ location = CreditsPath
  /\ LET st == Render(InvalidateCurrentUser(Send(Begin, "data")))
     IN Within(st) /\ Commit(st)

\* a link of the rendered screen: the sidebar, or login <-> register
Navigate(to) ==
  /\ Interactive
  /\ to # location
  /\ \/ screen = "protected" /\ to \in ProtectedPaths
     \/ screen = "auth" /\ to \in {LoginPath, RegisterPath}
  /\ Commit(RenderApp([Begin EXCEPT !.loc = to, !.params = NoParams]))

\* the effect of the rendered OAuthCallback screen
HandleCallback ==
  /\ Interactive
  /\ screen = "callback"
  /\ Commit(RenderApp([OAuthCallback(Begin) EXCEPT !.params = NoParams]))

\* "Continue with Google / Microsoft" on the login or register page: the
\* provider sends the browser back to the callback route
OAuthReturn(p) ==
  /\ Interactive
  /\ screen = "auth"
  /\ Commit(BrowserLoad(Begin, CallbackPath, p))

\* the page load that window.location.href = '/auth/login' started
Reload ==
  /\ reloadPending
  /\ Commit(BrowserLoad(Begin, LoginPath, NoParams))

Next ==
  \/ Mount
  \/ RespondAny
  \/ \E ep \in {"login", "register"} : Submit(ep)
  \/ Logout
  \/ FetchData
  \/ PaymentSuccess
  \/ \E to \in Paths : Navigate(to)
  \/ HandleCallback
  \/ \E p \in ParamSets : OAuthReturn(p)
  \/ Reload

Spec == Init /\ [][Next]_vars

\* Weak fairness of RespondAny, written out: WF_vars(A) is
\* []<>(~ENABLED <<A>>_vars) \/ []<><<A>>_vars, and a response is possible
\* exactly when the page is mounted with a request in flight (a transport
\* failure is always possible, and handling it takes the request out of reqs)
RespondFair == []<>(~(mounted /\ reqs # {})) \/ []<><<RespondAny>>_vars

\* every issued request eventually completes, a started page load mounts the
\* application, an assigned window.location loads its page, and the effect
\* of a rendered callback screen runs
FairSpec ==
  /\ Spec
  /\ WF_vars(Mount)
  /\ WF_vars(Reload)
  /\ WF_vars(HandleCallback)
  /\ RespondFair

----------------------------------------------------------------------------
(* The auth context with all the operations of its value.  forgotPassword   *)
(* and resetPassword are offered to every component under AuthProvider; no  *)
(* component of src/ calls them, so they are kept out of Next and the       *)
(* application with them is a specification of its own.                     *)

\* forgotPassword(email) / resetPassword({token, password}) called by a
\* component of the rendered screen
Password(ep) ==
  /\ Interactive
  /\ screen \in {"auth", "protected"}
  /\ LET st == Render(Send(Begin, ep))
     IN Within(st) /\ Commit(st)

ContextNext ==
  \/ Next
  \/ \E ep \in {"forgot", "reset"} : Password(ep)

ContextSpec == Init /\ [][ContextNext]_vars

----------------------------------------------------------------------------
(* The response interceptor's error handler, one statement at a time.  The  *)
(* handler is a function of the error it is given and of the storage; here  *)
(* it is called with the failures of one originating request (one config    *)
(* object), which a caller that sends the config again can make fail more   *)
(* than once.                                                               *)

\* mutant: the condition without the marker
ShouldTearDownAny401(originalRequest, outcome) == outcome = "unauthorized"

\* the condition of the teardown branch
ShouldTearDown(originalRequest, outcome) ==
  outcome = "unauthorized" /\ ~originalRequest.retry

\* the handler is entered with error.config = config; marked, before, nav0
\* and reload0 record the marker, the stored token, the navigations issued
\* and the pending page load at entry, n counts the failures of the request
Called(config, outcome, tok, navs, reload, n) ==
  [pc |-> "check", originalRequest |-> config, outcome |-> outcome,
   marked |-> config.retry, before |-> tok, nav0 |-> navs, reload0 |-> reload,
   n |-> n]

InterceptorInit ==
  /\ storage \in Tokens \cup {None}
  /\ user = (IF storage = None THEN None ELSE UserOf(storage))
  /\ isInitialized = TRUE
  /\ query = IdleQuery
  /\ reqs = {}
  /\ cache = FALSE
  /\ location = (IF storage = None THEN LoginPath ELSE DashboardPath)
  /\ params = NoParams
  /\ screen = (IF storage = None THEN "auth" ELSE "protected")
  /\ mounted = TRUE
  /\ reloadPending = FALSE
  /\ navIssued = 0
  /\ last = NoEvent
  /\ history = << >>
  /\ \E ep \in {"me", "data", "login", "register", "logout"},
        bearer \in Tokens \cup {None}, outcome \in Outcomes \ {"ok"} :
       handling = Called(RequestInterceptor(Config(St, ep), bearer),
                         outcome, storage, 0, FALSE, 1)

Untouched ==
  UNCHANGED <<user, isInitialized, query, reqs, cache, location, params,
              screen, mounted, history>>

\* if (error.response?.status === 401 && !originalRequest._retry)
Check ==
  /\ handling.pc = "check"
  /\ handling' = [handling EXCEPT !.pc =
                    IF ShouldTearDown(handling.originalRequest, handling.outcome)
                    THEN "mark" ELSE "reject"]
  /\ UNCHANGED <<storage, reloadPending, navIssued, last>>
  /\ Untouched

\* originalRequest._retry = true
Mark ==
  /\ handling.pc = "mark"
  /\ handling' = [handling EXCEPT !.originalRequest.retry = TRUE, !.pc = "remove"]
  /\ UNCHANGED <<storage, reloadPending, navIssued, last>>
  /\ Untouched

\* localStorage.removeItem('accessToken'); removeItem('refreshToken')
RemoveTokens ==
  /\ handling.pc = "remove"
  /\ storage' = None
  /\ handling' = [handling EXCEPT !.pc = "redirect"]
  /\ UNCHANGED <<reloadPending, navIssued, last>>
  /\ Untouched

\* window.location.href = '/auth/login'
AssignLocation ==
  /\ handling.pc = "redirect"
  /\ reloadPending' = TRUE
  /\ navIssued' = Min(navIssued + 1, MaxNav)
  /\ handling' = [handling EXCEPT !.pc = "reject"]
  /\ UNCHANGED <<storage, last>>
  /\ Untouched

\* return Promise.reject(error)
Reject ==
  /\ handling.pc = "reject"
  /\ last' = Settle(handling.originalRequest.ep, handling.outcome, None)
  /\ handling' = [handling EXCEPT !.pc = "done"]
  /\ UNCHANGED <<storage, reloadPending, navIssued>>
  /\ Untouched

\* the same config is sent again and fails again; a sign-in may have stored
\* a token in between
FailAgain(outcome, tok) ==
  /\ handling.pc = "done"
  /\ handling.n < MaxFailures
  /\ storage' = tok
  /\ last' = NoEvent
  /\ handling' = Called(handling.originalRequest, outcome, tok, navIssued,
                        reloadPending, handling.n + 1)
  /\ UNCHANGED <<reloadPending, navIssued>>
  /\ Untouched

InterceptorNext ==
  \/ Check
  \/ Mark
  \/ RemoveTokens
  \/ AssignLocation
  \/ Reject
  \/ \E outcome \in Outcomes \ {"ok"}, tok \in Tokens \cup {storage} :
       FailAgain(outcome, tok)

InterceptorSpec == InterceptorInit /\ [][InterceptorNext]_vars

----------------------------------------------------------------------------
(* The route guard with the router's history.  The guard is a function of   *)
(* the session (user, isLoading) and the location; here the session is      *)
(* initialized and changes by sign-in and sign-out, and the location by     *)
(* navigate(to), by links and by the browser's back button.                 *)

\* navigate(to) and <Link to>: a new entry after the current one
HistoryPush(h, to) == Append(h, to)

\* mutant: the redirect pushes an entry
NavigatePush(h, to) == Append(h, to)

\* <Navigate to=... replace />: the current entry is overwritten
NavigateReplace(h, to) == [h EXCEPT ![Len(h)] = to]

\* the tree renders at st.loc, the current entry of h; a redirect of the
\* guard goes through <Navigate replace />
Guarded(st, h) ==
  LET s == RenderApp(st)
  IN [st |-> s, h |-> IF s.loc # st.loc THEN NavigateReplace(h, s.loc) ELSE h]

GuardInit ==
  /\ user \in {None} \cup {UserOf(t) : t \in Tokens}
  /\ storage = (IF user = None THEN None ELSE CHOOSE t \in Tokens : UserOf(t) = user)
  /\ isInitialized = TRUE
  /\ query = (IF user = None THEN IdleQuery
              ELSE [status |-> "success", hasData |-> TRUE, fetching |-> FALSE,
                    enabled |-> TRUE])
  /\ reqs = {}
  /\ cache = (user # None)
  /\ location \in (IF user = None THEN {LoginPath, RegisterPath} ELSE ProtectedPaths)
  /\ params = NoParams
  /\ screen = (IF user = None THEN "auth" ELSE "protected")
  /\ mounted = TRUE
  /\ reloadPending = FALSE
  /\ navIssued = 0
  /\ last = NoEvent
  /\ handling = Idle
  /\ history = <<location>>

CommitGuarded(g) ==
  /\ Assign(g.st)
  /\ history' = g.h
  /\ handling' = handling

\* navigate(to) of a handler, or a link: the new entry is rendered
GoTo(to) ==
  /\ Len(history) < MaxHistory
  /\ to # location
  /\ CommitGuarded(Guarded([Begin EXCEPT !.loc = to, !.params = NoParams],
                           HistoryPush(history, to)))

\* the session layer sets user (sign-in) or clears it (logout, failed
\* re-fetch): the tree renders again at the current entry
SessionChange(u) ==
  /\ u # user
  /\ CommitGuarded(Guarded([Begin EXCEPT !.user = u], history))

\* the browser's back button: the previous entry is rendered
Back ==
  /\ Len(history) > 1
  /\ LET h == SubSeq(history, 1, Len(history) - 1)
     IN CommitGuarded(Guarded([Begin EXCEPT !.loc = h[Len(h)], !.params = NoParams], h))

GuardNext ==
  \/ \E to \in Paths : GoTo(to)
  \/ \E u \in {None} \cup {UserOf(t) : t \in Tokens} : SessionChange(u)
  \/ Back

GuardSpec == GuardInit /\ [][GuardNext]_vars

----------------------------------------------------------------------------
(* Claims *)

\* the step handles a 401 of request req
Is401(req) == Respond(req, "unauthorized", None)

\* no session operation is in the middle of a step
Quiescent ==
  /\ mounted
  /\ isInitialized
  /\ query.status # "loading"
  /\ reqs = {}
  /\ ~reloadPending
  /\ screen # "callback"

\* C1: while session resolution has not completed (isInitialized false, or
\* the current-user query loading) the guard shows the loading screen and
\* nothing else, and it redirects nowhere: a step that ends in such a state
\* leaves the location as it was.
C1_LoadingUntilResolved ==
  [][(mounted' /\ (~isInitialized' \/ query'.status = "loading"))
       => /\ screen' = "loading"
          /\ mounted => location' = location]_vars

C1_Witness ==
  /\ mounted
  /\ ~isInitialized
  /\ screen = "loading"
  /\ \E r \in reqs : r.ep = "me"

\* C2: once initialized and not loading, the guard shows a protected screen
\* only with a user and a public auth screen only without one; a state without
\* user reached from a protected location is at /auth/login, a state with a
\* user reached from a public location is at /dashboard, and a location whose
\* zone fits the user renders.
C2_GuardDecision ==
  [][(mounted' /\ isInitialized' /\ query'.status # "loading")
       => /\ user' = None =>
               /\ screen' \in {"auth", "callback"}
               /\ location' \in PublicPaths
               /\ location \in ProtectedPaths => location' = LoginPath
          /\ user' # None =>
               /\ screen' = "protected"
               /\ location' \in ProtectedPaths
               /\ location \in PublicPaths => location' = DashboardPath]_vars

C2_Witness ==
  /\ mounted
  /\ isInitialized
  /\ user = None
  /\ last.op = "logout"
  /\ location = LoginPath
  /\ screen = "auth"

\* C3 (as claimed): in every quiescent state after initialization the token
\* is in storage if and only if user is non-null.
C3_NeverPartiallyValid == Quiescent => (storage # None <=> user # None)

\* C4: a 401 of a data call made while Authenticated removes the token,
\* assigns window.location (a page load of /auth/login is due) and rejects
\* the call with the 401 it received; the page load that follows leaves user
\* absent at /auth/login.
C4_Teardown401 ==
  [][/\ \A req \in reqs :
          (req.ep = "data" /\ user # None /\ storage # None /\ Is401(req))
            => /\ storage' = None
               /\ reloadPending'
               /\ navIssued' >= 1
               /\ last' = Event("data", "rejected", "unauthorized", None)
     /\ (reloadPending /\ ~reloadPending')
          => (user' = None /\ location' = LoginPath /\ ~mounted')]_vars

C4_Witness ==
  /\ reloadPending
  /\ storage = None
  /\ user # None
  /\ last = Event("data", "rejected", "unauthorized", None)

\* C5 (as claimed): after initialization, within a page load, the token is
\* removed or user cleared only by a step that settles logout or handles a 401.
C5_OnlyLogoutOr401 ==
  [][(mounted /\ mounted' /\ isInitialized
        /\ \/ storage # None /\ storage' = None
           \/ user # None /\ user' = None)
       => \E req \in reqs :
            \/ Is401(req)
            \/ req.ep = "logout" /\ \E o \in Outcomes : Respond(req, o, None)]_vars

\* C6 (as claimed): a failed login or register, whatever the failure, leaves
\* token, user and isInitialized as they were, issues no navigation and is
\* rejected to the caller with an error notification.
C6_LoginFailureNoChange ==
  [][\A req \in reqs, o \in Outcomes \ {"ok"} :
        (req.ep \in {"login", "register"} /\ req.live /\ Respond(req, o, None))
          => /\ storage' = storage
             /\ user' = user
             /\ isInitialized' = isInitialized
             /\ reloadPending' = reloadPending
             /\ location' = location
             /\ last' = Event(req.ep, "rejected", o, "error")]_vars

\* C7 (as claimed): the teardown happens once for requests in flight
\* together: a 401 of a request that was already in flight when an earlier
\* 401 tore the session down does not issue the teardown again.
C7_TeardownOnce ==
  [][\A req \in reqs :
        (req.ep \in Authorized /\ Is401(req) /\ req.epoch < navIssued)
          => navIssued' = navIssued]_vars

\* C7 (amended): every 401 response runs the teardown again (the count of
\* issued navigations goes up with each), and each run ends in the same
\* state: token absent, page load of /auth/login due; that page load starts
\* without user at /auth/login.
C7_TeardownIdempotent ==
  [][/\ \A req \in reqs :
          Is401(req) => /\ storage' = None
                        /\ reloadPending'
                        /\ navIssued' = Min(navIssued + 1, MaxNav)
     /\ (reloadPending /\ ~reloadPending')
          => (user' = None /\ location' = LoginPath /\ navIssued' = 0)]_vars

\* two requests were in flight together and both received 401
C7_Witness ==
  /\ navIssued = 2
  /\ storage = None
  /\ reloadPending
  /\ last.error = "unauthorized"
  /\ last.op \in Authorized

\* C8: once a logout call has settled the session is Anonymous: user absent
\* and no token in storage.
C8_LogoutEndsAnonymous ==
  last.op = "logout" => (user = None /\ storage = None)

C8_Witness ==
  /\ mounted
  /\ last.op = "logout"
  /\ screen = "auth"

\* C9: for every outcome of POST /api/auth/logout the settle removes the
\* token, clears user, clears the query cache and reports success.
C9_LogoutAnyOutcome ==
  [][\A req \in reqs, o \in Outcomes :
        (req.ep = "logout" /\ req.live /\ Respond(req, o, None))
          => /\ storage' = None
             /\ user' = None
             /\ ~cache'
             /\ ~query'.hasData
             /\ last' = Event("logout", "resolved", None, "success")]_vars

C9_Witness ==
  /\ last = Event("logout", "resolved", None, "success")
  /\ reloadPending
  /\ ~cache

\* C10: if every request completes, an uninitialized session becomes
\* initialized, as Authenticated (token and user) or Anonymous (neither).
C10_InitializeTerminates ==
  (~isInitialized) ~> (isInitialized /\ (storage # None <=> user # None))

C10_Witness ==
  /\ mounted
  /\ isInitialized
  /\ last = Event("me", "rejected", "network", None)

\* the step handles the answer o to the current-user request req of a
\* session that is still resolving
Resolves(req, o) ==
  /\ ~isInitialized
  /\ req.ep = "me"
  /\ Respond(req, o, None)

\* C11: with a token in storage at application start, a failure of
\* GET /api/auth/me (401, other status, network) ends initialize with the
\* token removed, user absent and isInitialized true; the guard answers
\* /dashboard with a redirect to /auth/login, and a page that was at a
\* protected location is at /auth/login.
C11_FailClosed ==
  [][\A req \in reqs, o \in Outcomes \ {"ok"} :
        Resolves(req, o)
          => /\ storage' = None
             /\ user' = None
             /\ isInitialized'
             /\ ProtectedRoute([St EXCEPT !.loc = DashboardPath])'
                  = Redirect(LoginPath)
             /\ location \in ProtectedPaths
                  => (location' = LoginPath /\ screen' = "auth")]_vars

C11_Witness ==
  /\ mounted
  /\ isInitialized
  /\ storage = None
  /\ user = None
  /\ ~query.hasData
  /\ last = Event("me", "rejected", "error", None)
  /\ location = LoginPath
  /\ screen = "auth"

\* C12: with a token in storage at application start, a success of
\* GET /api/auth/me ends initialize with user equal to the record returned
\* for that token, isInitialized true and the token unchanged; the guard
\* renders /dashboard, and a page at a protected location stays there.
C12_ResolveAuthenticated ==
  [][\A req \in reqs :
        Resolves(req, "ok")
          => /\ user' = UserOf(req.bearer)
             /\ isInitialized'
             /\ storage' = storage
             /\ storage' = req.bearer
             /\ ProtectedRoute([St EXCEPT !.loc = DashboardPath])'
                  = Show("protected")
             /\ location \in ProtectedPaths
                  => (location' = location /\ screen' = "protected")]_vars

C12_Witness ==
  /\ mounted
  /\ isInitialized
  /\ storage # None
  /\ user = UserOf(storage)
  /\ reqs = {}
  /\ last = Event("me", "resolved", None, None)
  /\ location = CreditsPath
  /\ screen = "protected"

\* the requests sent by the step
Issued == {r \in reqs' : r \notin reqs /\ [r EXCEPT !.live = TRUE] \notin reqs}

\* C13 (as claimed): a successful login or register stores the returned
\* token, sets user to the returned user and reports success, and the
\* requests sent from then on carry that token until a teardown: in the step
\* that follows the success the stored token is kept or removed, never
\* replaced, and the requests sent carry it.
C13_LoginAuthenticates ==
  [][/\ \A req \in reqs, tok \in Tokens :
          (req.ep \in {"login", "register"} /\ req.live /\ Respond(req, "ok", tok))
            => /\ storage' = tok
               /\ user' = UserOf(tok)
               /\ last' = Event(req.ep, "resolved", None, "success")
               /\ \A r \in Issued : r.bearer = tok
     /\ (last.op \in {"login", "register"} /\ last.toast = "success" /\ mounted')
          => /\ storage' \in {storage, None}
             /\ \A r \in Issued : r.bearer = storage]_vars

\* C14 (as claimed): an unresolved session holds no identity, and the
\* identity in user never goes from one signed-in user to a different one in
\* one step, without user being absent in between.
C14_NoAccountSwitch ==
  [][/\ ~isInitialized' => user' = None
     /\ (user # None /\ user' # None) => user' = user]_vars

\* C15: every request goes out with the Authorization header of the token
\* that is in storage when it is sent, and without the header when there is
\* none; nothing else of the caller's config is changed.
C15_BearerAtSendTime ==
  [][\A r \in Issued :
        /\ r.bearer = storage'
        /\ r = [Config(St, r.ep)' EXCEPT !.bearer = storage']]_vars

\* requests in flight that were sent before and after the token was stored
C15_Witness ==
  \E r1, r2 \in reqs :
    /\ r1.bearer = None
    /\ r2.bearer # None
    /\ r2.bearer = storage

\* C16: for an error status other than 401 and for a failure without a
\* response the response interceptor changes nothing (storage, location, no
\* navigation), and the caller is rejected with the error received: a page's
\* data call that fails so leaves storage and location as they were.
C16_OtherErrorsPassThrough ==
  [][\A req \in reqs, o \in {"error", "network"} :
        /\ ResponseInterceptor(St, req, o) = St
        /\ Settle(req.ep, o, None) = Event(req.ep, "rejected", o, None)
        /\ (req.ep = "data" /\ Respond(req, o, None))
             => /\ storage' = storage
                /\ location' = location
                /\ reloadPending' = reloadPending
                /\ navIssued' = navIssued
                /\ last' = Event("data", "rejected", o, None)]_vars

C16_Witness ==
  /\ last = Event("data", "rejected", "error", None)
  /\ storage # None
  /\ user # None
  /\ ~reloadPending
  /\ screen = "protected"

\* C17: the teardown runs only for the first 401 of an originating request:
\* when a request that already carries the _retry marker fails with 401 the
\* handler removes no token and issues no navigation and only rejects; and
\* the marker is set before any teardown effect (a removed token or an
\* issued navigation implies the marker).  The handler run to its end does
\* what ResponseInterceptor does in one step.
C17_FirstFailureOnly ==
  handling.pc # "idle" =>
    /\ (handling.marked /\ handling.outcome = "unauthorized")
         => /\ storage = handling.before
            /\ navIssued = handling.nav0
            /\ reloadPending = handling.reload0
            /\ handling.pc = "done"
                 => last = Event(handling.originalRequest.ep, "rejected",
                                 "unauthorized", None)
    /\ (storage # handling.before \/ navIssued # handling.nav0)
         => handling.originalRequest.retry
    /\ handling.pc = "done"
         => LET s0 == [St EXCEPT !.token = handling.before,
                                 !.navs = handling.nav0,
                                 !.reload = handling.reload0]
                s1 == ResponseInterceptor(
                        s0, [handling.originalRequest EXCEPT
                               !.retry = handling.marked], handling.outcome)
            IN /\ storage = s1.token
               /\ navIssued = s1.navs
               /\ reloadPending = s1.reload

\* a marked request has failed with 401 while a token was stored
C17_Witness ==
  /\ handling.pc = "done"
  /\ handling.marked
  /\ handling.outcome = "unauthorized"
  /\ storage # None

\* C18: isInitialized is false until the page is mounted; at the mount it
\* becomes true exactly when no token is found; otherwise it becomes true in
\* the step that settles the first current-user fetch, whatever its outcome;
\* it becomes true in no other step, and within the page load it never
\* returns to false.
C18_InitializedOnce ==
  [][/\ ~mounted' => ~isInitialized'
     /\ (~mounted /\ mounted') => (isInitialized' <=> storage = None)
     /\ \A req \in reqs, o \in Outcomes : Resolves(req, o) => isInitialized'
     /\ (~isInitialized /\ isInitialized')
          => \/ ~mounted /\ storage = None
             \/ \E req \in reqs \ reqs' : req.ep = "me" /\ req.live
     /\ (mounted /\ mounted' /\ isInitialized) => isInitialized']_vars

\* a re-fetch of the current user has failed after the session was resolved
C18_Witness ==
  /\ mounted
  /\ isInitialized
  /\ query.hasData
  /\ query.status = "error"
  /\ last = Event("me", "rejected", "network", None)

\* C19 (as claimed): at most one GET /api/auth/me is in flight at any time
\* of a page load.
C19_OneResolutionInFlight ==
  Cardinality({r \in reqs : r.ep = "me"}) <= 1

\* C20 (as claimed): for every outcome of the server call, forgotPassword
\* and resetPassword leave the stored token, user and isInitialized as they
\* were and produce a success or error notification.
C20_PasswordNoSessionChange ==
  [][\A req \in reqs, o \in Outcomes :
        (req.ep \in {"forgot", "reset"} /\ req.live /\ Respond(req, o, None))
          => /\ storage' = storage
             /\ user' = user
             /\ isInitialized' = isInitialized
             /\ last' = Settle(req.ep, o, IF o = "ok" THEN "success" ELSE "error")]_vars

\* C21: the callback handler, by its query parameters: with an error it
\* reports the error, stores nothing and navigates to /auth/login; otherwise
\* with a token it stores the token, reports success and navigates to
\* /dashboard; with neither it reports a missing token, stores nothing and
\* navigates to /auth/login.
C21_CallbackByParams ==
  [][HandleCallback =>
       LET h == OAuthCallback(Begin)
       IN /\ params.error
               => /\ storage' = storage
                  /\ last' = Event("callback", None, "provider", "error")
                  /\ h.loc = LoginPath /\ location' = LoginPath
          /\ (~params.error /\ params.token # None)
               => /\ storage' = params.token
                  /\ last' = Event("callback", None, None, "success")
                  /\ h.loc = DashboardPath
          /\ (~params.error /\ params.token = None)
               => /\ storage' = storage
                  /\ last' = Event("callback", None, "missing", "error")
                  /\ h.loc = LoginPath /\ location' = LoginPath]_vars

C21_Witness ==
  /\ mounted
  /\ storage # None
  /\ user = None
  /\ reqs = {}
  /\ last = Event("callback", None, None, "success")

\* C22: an application start with no token in storage ends with
\* isInitialized true and user absent, the current-user query disabled and
\* idle and no request sent; and no step sends GET /api/auth/me while no
\* token is stored.
C22_NoTokenNoFetch ==
  [][/\ (~mounted /\ mounted' /\ storage = None)
          => /\ isInitialized'
             /\ user' = None
             /\ storage' = None
             /\ query' = IdleQuery
             /\ reqs' = {}
     /\ \A r \in Issued : r.ep = "me" => storage' # None]_vars

C22_Witness ==
  /\ mounted
  /\ isInitialized
  /\ storage = None
  /\ user = None
  /\ query = IdleQuery
  /\ reqs = {}
  /\ last = NoEvent
  /\ location = LoginPath
  /\ screen = "auth"

\* C30: a callback URL with both an error and a token: the error wins, the
\* token is not stored, the error is reported and the handler navigates to
\* /auth/login.
C30_ErrorBeforeToken ==
  [][(HandleCallback /\ params.error /\ params.token # None)
       => /\ storage' = storage
          /\ storage' # params.token \/ storage = params.token
          /\ last' = Event("callback", None, "provider", "error")
          /\ location' = LoginPath
          /\ screen' = "auth"]_vars

\* the callback screen is rendered for a URL with both parameters and an
\* empty storage: its effect is due
C30_Witness ==
  /\ mounted
  /\ screen = "callback"
  /\ params.error
  /\ params.token # None
  /\ storage = None

\* C24 (as claimed): a 401 of a request that was sent with another token
\* than the one now stored, or with none, leaves the stored token of the
\* newer session in storage.
C24_Stale401Harmless ==
  [][\A req \in reqs :
        (Is401(req) /\ storage # None /\ user # None /\ req.bearer # storage)
          => storage' = storage]_vars

\* C25: a successful login or register ends, in the step that settles it,
\* with user set and the guard showing the protected screen at /dashboard
\* (the navigation is not bounced to /auth/login); a failed one leaves the
\* location as it was.
C25_LoginLandsOnDashboard ==
  [][\A req \in reqs :
        (req.ep \in {"login", "register"} /\ req.live)
          => /\ \A tok \in Tokens :
                  Respond(req, "ok", tok)
                    => /\ user' = UserOf(tok)
                       /\ location' = DashboardPath
                       /\ screen' = "protected"
             /\ \A o \in Outcomes \ {"ok"} :
                  Respond(req, o, None) => location' = location]_vars

C25_Witness ==
  /\ mounted
  /\ user # None
  /\ location = DashboardPath
  /\ screen = "protected"
  /\ last = Event("register", "resolved", None, "success")

\* C26 (as claimed): after the callback handler has stored a token and
\* navigated to /dashboard, the session eventually is Authenticated and the
\* guard eventually shows the protected screen.
C26_CallbackAuthenticates ==
  (last = Event("callback", None, None, "success"))
    ~> (user # None /\ screen = "protected")

\* C27: a successful re-fetch of the current user while Authenticated sets
\* user to the record the server returned and leaves the stored token and
\* isInitialized as they were, and the guard keeps showing the protected
\* screen: both when handlePaymentSuccess starts the re-fetch and when the
\* re-fetch is answered.
C27_RefetchKeepsSession ==
  [][/\ PaymentSuccess
          => /\ user' = user
             /\ storage' = storage
             /\ isInitialized'
             /\ query'.status # "loading"
             /\ screen' = "protected"
             /\ location' = location
     /\ \A req \in reqs :
          (req.ep = "me" /\ req.live /\ isInitialized /\ user # None
             /\ Respond(req, "ok", None))
            => /\ user' = UserOf(req.bearer)
               /\ storage' = storage
               /\ isInitialized'
               /\ screen' = "protected"
               /\ location' = location]_vars

\* the re-fetch started by handlePaymentSuccess has been answered
C27_Witness ==
  /\ mounted
  /\ user # None
  /\ storage # None
  /\ location = CreditsPath
  /\ screen = "protected"
  /\ last = Event("me", "resolved", None, None)
  /\ \E r \in reqs : r.ep = "data" /\ r.live

\* C28 (as claimed): once initialized with a screen rendered, the guard
\* never shows the loading screen again in the same page load.
C28_NoLoadingAfterInit ==
  [][(mounted /\ mounted' /\ isInitialized
        /\ screen \in {"auth", "callback", "protected"})
       => screen' # "loading"]_vars

\* C29: logout tears down at the settle of POST /api/auth/logout, not at the
\* call: the call leaves token, user and cache as they are and sends the
\* request with the bearer token; a data request sent while the logout is
\* pending carries the stored token; the settle removes the token and
\* clears user and cache in one step.
C29_LogoutAtSettle ==
  [][/\ Logout
          => /\ storage' = storage
             /\ user' = user
             /\ cache' = cache
             /\ \A r \in Issued : r.ep = "logout" /\ r.bearer = storage
             /\ \E r \in reqs' : r.ep = "logout" /\ r.live /\ r.bearer = storage
     /\ (FetchData /\ IsMutating(St, "logout"))
          => /\ storage' = storage
             /\ user' = user
             /\ cache' = cache
             /\ \A r \in Issued : r.bearer = storage
     /\ \A req \in reqs, o \in Outcomes :
          (req.ep = "logout" /\ req.live /\ Respond(req, o, None))
            => (storage' = None /\ user' = None /\ ~cache')]_vars

\* a data request is in flight with the bearer token while logout is pending
C29_Witness ==
  /\ storage # None
  /\ user # None
  /\ cache
  /\ \E r \in reqs : r.ep = "logout" /\ r.live /\ r.bearer = storage
  /\ \E r \in reqs : r.ep = "data" /\ r.live /\ r.bearer = storage

\* the entries of h below the current one
Below(h) == SubSeq(h, 1, Len(h) - 1)

\* C23: a redirect of the guard overwrites the current history entry and
\* adds none.  When the session changes under a route, the entries below
\* stay and the current one becomes the route shown, so the route redirected
\* from has no entry of its own left; a navigation adds exactly one entry,
\* the route shown, also when its target was disallowed; going back drops
\* one entry and shows an allowed route.  The current entry always is the
\* location shown.
C23_RedirectReplaces ==
  [][/\ history'[Len(history')] = location'
     /\ App(St)'.kind = "render"
     /\ (user' # user)
          => /\ Len(history') = Len(history)
             /\ Below(history') = Below(history)
     /\ \A to \in Paths :
          GoTo(to) => /\ history' = Append(history, location')
                      /\ (location' # to) => history'[Len(history')] # to
     /\ Back => /\ Len(history') = Len(history) - 1
                /\ Below(history') = Below(Below(history))]_vars

\* the guard has redirected a navigation from /auth/login to a protected
\* route: the entry navigated from is below the current one, the route
\* navigated to has no entry (a navigation never targets the current route,
\* so only a redirect puts the same route in two entries in a row)
C23_Witness ==
  /\ user = None
  /\ history = <<LoginPath, LoginPath>>
  /\ location = LoginPath
  /\ screen = "auth"

====
